---- MODULE Spec2Model ----
(***************************************************************************)
(* Model of app.py: parse_xml_to_excel (XML transaction export -> styled   *)
(* worksheet) and the part of main() that calls it.                        *)
(*                                                                         *)
(* A document is a sequence of XML tokens (XML declaration, start tag, end  *)
(* tag, character data); ET.parse is modelled by a stack parser over the   *)
(* tokens.  Python values that are either a str or None are records        *)
(* [isNone, s].                                                            *)
(***************************************************************************)
EXTENDS Integers, Sequences, FiniteSets, TLC

VARIABLES
    uploaded_file,      \* main: the stream st.file_uploader returned
    excel_buffer,       \* main line 202: first component of the result
    message,            \* main line 202: second component
    num_transactions,   \* main line 202: third component
    last,               \* what the last call did (read, tree, rows, sheet, exceptions)
    calls,              \* number of calls made on the current stream
    first_result        \* result triple of the first call on the current stream

vars == <<uploaded_file, excel_buffer, message, num_transactions, last, calls,
          first_result>>

(***************************** bounds **************************************)
MaxTrans == 2     \* children of the document root
MaxFields == 2    \* child elements of one Transaction element
MaxCalls == 2     \* calls of parse_xml_to_excel on one stream

(************************ Python str / None ********************************)
None == [isNone |-> TRUE, s |-> ""]
Str(s) == [isNone |-> FALSE, s |-> s]

Min(a, b) == IF a < b THEN a ELSE b

MinOf(S) == CHOOSE x \in S : \A y \in S : x <= y

(***************************** the field table *****************************)
\* lines 73-97: the tag looked up for each local; lines 100-118: the label
\* under which the local is stored in the record.
Fields == <<
    [tag |-> "TransType",          label |-> "Transaction Type"],
    [tag |-> "Date",               label |-> "Date"],
    [tag |-> "Time",               label |-> "Time"],
    [tag |-> "LastName",           label |-> "Last Name"],
    [tag |-> "FirstName",          label |-> "First Name"],
    [tag |-> "MiddleName",         label |-> "Middle Name"],
    [tag |-> "PatronBarcode",      label |-> "Patron Barcode"],
    [tag |-> "DistrictID",         label |-> "District ID"],
    [tag |-> "PatronType",         label |-> "Patron Type"],
    [tag |-> "PatronGradeLevel",   label |-> "Grade Level"],
    [tag |-> "PatronHomeroom",     label |-> "Homeroom"],
    [tag |-> "Title",              label |-> "Title"],
    [tag |-> "ISBN",               label |-> "ISBN"],
    [tag |-> "BibType",            label |-> "Material Type"],
    [tag |-> "PubYear",            label |-> "Publication Year"],
    [tag |-> "CopyBarcode",        label |-> "Copy Barcode"],
    [tag |-> "CallNumber",         label |-> "Call Number"],
    [tag |-> "CircType",           label |-> "Circulation Type"],
    [tag |-> "OriginatorUsername", label |-> "Originator Username"] >>

\* lines 130-133
headers == <<"Transaction Type", "Date", "Time", "Last Name", "First Name",
             "Middle Name", "Patron Barcode", "District ID", "Patron Type",
             "Grade Level", "Homeroom", "Title", "ISBN", "Material Type",
             "Publication Year", "Copy Barcode", "Call Number",
             "Circulation Type", "Originator Username">>

Labels == {Fields[i].label : i \in 1..Len(Fields)}

KnownTags == {Fields[i].tag : i \in 1..Len(Fields)}

(***************************** XML tokens **********************************)
StartTag(tag) == [k |-> "open", v |-> tag]
EndTag(tag) == [k |-> "close", v |-> tag]
Text(s) == [k |-> "text", v |-> s]
\* <?xml version="1.0" encoding="..."?>
Decl(encoding) == [k |-> "decl", v |-> encoding]

\* the encodings Python has a codec for
KnownEncodings == {"utf-8", "cp1252"}

\* <tag>content inner</tag> as tokens; content is <<>> or <<Text(s)>>
Elem(tag, content, inner) == <<StartTag(tag)>> \o content \o inner \o <<EndTag(tag)>>

(************************* ET.parse (line 66) ******************************)
\* An element of the tree: tag, .text (str or None), child elements.
NewElement(tag) == [tag |-> tag, text |-> None, children |-> <<>>]

\* Character data: it is the .text of the open element while that element
\* has no child yet, and the .tail of a child (never read by app.py) after.
AddText(e, s) ==
    IF e.children # <<>> THEN e
    ELSE [e EXCEPT !.text = IF e.text.isNone THEN Str(s) ELSE Str(e.text.s \o s)]

\* the parser raises ET.ParseError(msg)
ParseFail(msg) == [ok |-> FALSE, exc |-> "ParseError", msg |-> msg, root |-> NewElement("")]

\* the parser's unknown-encoding handler fails to find a codec: LookupError
EncodingFail(encoding) ==
    [ok |-> FALSE, exc |-> "LookupError", msg |-> "unknown encoding: " \o encoding,
     root |-> NewElement("")]

\* stack: the open elements, innermost last; done: <<root>> once the
\* document element is closed.
RECURSIVE Feed(_, _, _, _)
Feed(toks, i, stack, done) ==
    IF i > Len(toks)
    THEN IF stack # <<>> \/ done = <<>>
         THEN ParseFail("no element found")
         ELSE [ok |-> TRUE, exc |-> "", msg |-> "", root |-> done[1]]
    ELSE LET t == toks[i]
             n == Len(stack)
         IN  CASE t.k = "decl" ->
                    IF i # 1
                    THEN ParseFail("XML or text declaration not at start of entity")
                    ELSE IF t.v \notin KnownEncodings THEN EncodingFail(t.v)
                    ELSE Feed(toks, i + 1, stack, done)
               [] t.k = "open" ->
                    IF done # <<>>
                    THEN ParseFail("junk after document element")
                    ELSE Feed(toks, i + 1, Append(stack, NewElement(t.v)), done)
               [] t.k = "text" ->
                    IF done # <<>> THEN ParseFail("junk after document element")
                    ELSE IF n = 0 THEN ParseFail("not well-formed (invalid token)")
                    ELSE Feed(toks, i + 1,
                              [stack EXCEPT ![n] = AddText(stack[n], t.v)], done)
               [] OTHER ->
                    IF n = 0 THEN ParseFail("not well-formed (invalid token)")
                    ELSE IF stack[n].tag # t.v THEN ParseFail("mismatched tag")
                    ELSE IF n = 1
                         THEN Feed(toks, i + 1, <<>>, <<stack[1]>>)
                         ELSE Feed(toks, i + 1,
                                   [SubSeq(stack, 1, n - 1) EXCEPT ![n - 1].children =
                                        Append(stack[n - 1].children, stack[n])],
                                   done)

Parse(toks) == Feed(toks, 1, <<>>, <<>>)

(********************** the stream passed as xml_file ***********************)
\* A file object: its content and the read position.
NoFile == [present |-> FALSE, doc |-> <<>>, pos |-> 0]

NewFile(doc) == [present |-> TRUE, doc |-> doc, pos |-> 0]

\* What the reads of ET.parse deliver: everything from the read position on.
ReadAll(f) == SubSeq(f.doc, f.pos + 1, Len(f.doc))

\* The reads leave the position at the end of the stream.
AfterRead(f) == [f EXCEPT !.pos = Len(f.doc)]

(************************ extraction, lines 69-119 *************************)
\* mutant: the search descends the whole subtree ('.//Transaction')
RECURSIVE Findall_Descendants(_, _)
Findall_Descendants(e, tag) ==
    LET n[i \in 0..Len(e.children)] ==
            IF i = 0 THEN <<>>
            ELSE n[i - 1]
                 \o (IF e.children[i].tag = tag THEN <<e.children[i]>> ELSE <<>>)
                 \o Findall_Descendants(e.children[i], tag)
    IN  n[Len(e.children)]

\* Element.findall(tag) with a bare tag: the direct children with that tag,
\* in document order.
Findall(e, tag) == SelectSeq(e.children, LAMBDA c : c.tag = tag)

\* Element.find(tag): the first direct child with that tag, as <<child>>,
\* or <<>> for Python's None.
Find(e, tag) ==
    LET hits == {i \in 1..Len(e.children) : e.children[i].tag = tag}
    IN  IF hits = {} THEN <<>> ELSE <<e.children[MinOf(hits)]>>

\* mutant: the default of the conditional is None instead of ''
FieldValue_NoDefault(transaction, tag) ==
    IF Find(transaction, tag) # <<>> THEN Find(transaction, tag)[1].text ELSE None

\* x = transaction.find(T).text if transaction.find(T) is not None else ''
FieldValue(transaction, tag) ==
    IF Find(transaction, tag) # <<>> THEN Find(transaction, tag)[1].text ELSE Str("")

\* lines 99-119: the dict appended for one Transaction element
Record(transaction) ==
    [l \in Labels |->
        LET f == CHOOSE g \in {Fields[i] : i \in 1..Len(Fields)} : g.label = l
        IN  FieldValue(transaction, f.tag)]

\* mutant: each record is inserted at the front of data_rows
ExtractRows_Prepend(root) ==
    LET ts == Findall(root, "Transaction")
    IN  [k \in 1..Len(ts) |-> Record(ts[Len(ts) + 1 - k])]

\* lines 69-119: the loop over root.findall('Transaction')
ExtractRows(root) ==
    LET ts == Findall(root, "Transaction")
    IN  [k \in 1..Len(ts) |-> Record(ts[k])]

(************************ the sheet, lines 125-143 *************************)
\* lines 135-138: row 1, one styled cell per header
HeaderRow == [c \in 1..Len(headers) |-> Str(headers[c])]

HeaderStyle == [bold |-> TRUE, color |-> "FFFFFF", fill |-> "4472C4"]

\* lines 142-143: one row, the record's values in header order
DataRow(data) == [c \in 1..Len(headers) |-> data[headers[c]]]

\* lines 135-143: the cell values of the sheet, row by row
SheetRows(data_rows) ==
    <<HeaderRow>> \o [k \in 1..Len(data_rows) |-> DataRow(data_rows[k])]

(******************** column widths, lines 146-156 *************************)
MarginWidth == 2
MaxWidth == 50

\* len(str(cell.value)): str(None) is 'None'
StrLen(v) == IF v.isNone THEN Len("None") ELSE Len(v.s)

\* lines 150-154 for one cell: the new max_length, and whether len(cell.value)
\* raised TypeError (len of None), which the bare except swallows.
MeasureCell(max_length, v) ==
    IF StrLen(v) > max_length
    THEN IF v.isNone
         THEN [max_length |-> max_length, raised |-> TRUE]
         ELSE [max_length |-> Len(v.s), raised |-> FALSE]
    ELSE [max_length |-> max_length, raised |-> FALSE]

\* lines 147-154: the scan of one column, top to bottom
RECURSIVE ScanColumn(_, _, _, _, _)
ScanColumn(rows, c, r, max_length, errs) ==
    IF r > Len(rows) THEN [max_length |-> max_length, errs |-> errs]
    ELSE LET m == MeasureCell(max_length, rows[r][c])
         IN  ScanColumn(rows, c, r + 1, m.max_length,
                        IF m.raised THEN errs + 1 ELSE errs)

\* mutant: the width is not capped
AdjustedWidth_NoCap(max_length) == max_length + MarginWidth

\* line 155
AdjustedWidth(max_length) == Min(max_length + MarginWidth, MaxWidth)

\* lines 146-156: ws.column_dimensions[...].width for every column
ColumnWidths(rows) ==
    [c \in 1..Len(headers) |-> AdjustedWidth(ScanColumn(rows, c, 1, 0, 0).max_length)]

\* the number of TypeErrors raised and swallowed during the scan
SwallowedErrors(rows) ==
    LET n[c \in 0..Len(headers)] ==
            IF c = 0 THEN 0 ELSE n[c - 1] + ScanColumn(rows, c, 1, 0, 0).errs
    IN  n[Len(headers)]

(********************* results, lines 122, 163-168 *************************)
NoBuffer == [isNone |-> TRUE, title |-> "", rows |-> <<>>, widths |-> <<>>,
             header_style |-> HeaderStyle, pos |-> 0]

\* lines 125-127, 159-161: the saved workbook, positioned at the start
SavedWorkbook(rows, widths) ==
    [isNone |-> FALSE, title |-> "Transactions", rows |-> rows, widths |-> widths,
     header_style |-> HeaderStyle, pos |-> 0]

\* mutant: the last row number is returned as the count
ReturnSuccess_RowNumber(buffer, data_rows) ==
    [buffer |-> buffer, message |-> "Success", count |-> Len(data_rows) + 1]

\* line 163
ReturnSuccess(buffer, data_rows) ==
    [buffer |-> buffer, message |-> "Success", count |-> Len(data_rows)]

\* line 122
ReturnNoData ==
    [buffer |-> NoBuffer, message |-> "No transaction data found in XML file", count |-> 0]

\* mutant: `except Exception` comes first and catches ParseError too
Handle_GenericFirst(exc) ==
    [buffer |-> NoBuffer, message |-> "Error processing file: " \o exc.msg, count |-> 0]

\* mutant: one clause reports every exception as an XML error
Handle_AllInvalid(exc) ==
    [buffer |-> NoBuffer, message |-> "Invalid XML file: " \o exc.msg, count |-> 0]

\* lines 165-168: the two except clauses, tried in order
Handle(exc) ==
    IF exc.type = "ParseError"
    THEN [buffer |-> NoBuffer, message |-> "Invalid XML file: " \o exc.msg, count |-> 0]
    ELSE [buffer |-> NoBuffer, message |-> "Error processing file: " \o exc.msg, count |-> 0]

\* mutant: the empty batch is not rejected
IsEmpty_Never(data_rows) == FALSE

\* line 121: `if not data_rows`
IsEmpty(data_rows) == Len(data_rows) = 0

NoTree == [ok |-> FALSE, exc |-> "", msg |-> "", root |-> NewElement("")]

\* lines 62-168: one call.  result is the returned triple; the other fields
\* record what the call did.
parse_xml_to_excel(xml_file) ==
    LET data == ReadAll(xml_file)
        tree == Parse(data)
        base == [stream |-> AfterRead(xml_file), read |-> data, tree |-> tree]
    IN  IF ~tree.ok
        THEN LET exc == [type |-> tree.exc, msg |-> tree.msg]
             IN  base @@ [result |-> Handle(exc), data_rows |-> <<>>, wb |-> FALSE,
                          ws |-> <<>>, raised |-> <<exc.type>>]
        ELSE LET data_rows == ExtractRows(tree.root)
             IN  IF IsEmpty(data_rows)
                 THEN base @@ [result |-> ReturnNoData, data_rows |-> data_rows,
                               wb |-> FALSE, ws |-> <<>>, raised |-> <<>>]
                 ELSE LET rows == SheetRows(data_rows)
                          widths == ColumnWidths(rows)
                      IN  base @@
                          [result |-> ReturnSuccess(SavedWorkbook(rows, widths), data_rows),
                           data_rows |-> data_rows, wb |-> TRUE, ws |-> rows,
                           raised |-> [i \in 1..SwallowedErrors(rows) |-> "TypeError"]]

(************************* the documents uploaded *************************)
T10 == "1234567890"
T55 == "The Extraordinarily Long Title Of A Sample Library Book"

Texts == {T10, T55}

\* element content: none (<Title/> or <Title></Title>) or character data
Contents == {<<>>} \cup {<<Text(s)>> : s \in Texts}

DocTags == KnownTags \cup {"Note"}

PairTags == {"Title", "Date"}

FieldElems == {Elem(t, c, <<>>) : t \in DocTags, c \in Contents}

PairElems == {Elem(t, c, <<>>) : t \in PairTags, c \in {<<>>, <<Text(T10)>>}}

\* the concatenations of exactly n members of S
RECURSIVE Concats(_, _)
Concats(S, n) ==
    IF n = 0 THEN {<<>>} ELSE {a \o b : a \in Concats(S, n - 1), b \in S}

\* the content of a Transaction element: no child, one child of any tag,
\* up to MaxFields children of the pair tags (the same tag twice included),
\* or a known tag one level too deep
Bodies ==
    {<<>>} \cup FieldElems
    \cup UNION {Concats(PairElems, n) : n \in 2..MaxFields}
    \cup {Elem("Note", <<>>, f) : f \in PairElems}

FullKinds == {Elem("Transaction", <<>>, b) : b \in Bodies}

SampleTransaction == Elem("Transaction", <<>>, Elem("Title", <<Text(T55)>>, <<>>))

\* a Transaction, a Transaction one level too deep, an element of another tag
SmallKinds ==
    {SampleTransaction, Elem("Batch", <<>>, SampleTransaction),
     Elem("Header", <<Text("x")>>, <<>>)}

SmallSeqs(n) == UNION {Concats(SmallKinds, k) : k \in 0..n}

\* the children of the root: at most MaxTrans, at most one of them of FullKinds
ChildSeqs ==
    SmallSeqs(MaxTrans)
    \cup UNION {{p \o f \o q : p \in Concats(SmallKinds, ij[1]),
                              f \in FullKinds,
                              q \in Concats(SmallKinds, ij[2])} :
                ij \in {x \in (0..MaxTrans) \X (0..MaxTrans) : x[1] + x[2] < MaxTrans}}

\* one Transaction with seven of the fields and the other twelve absent
RoundTripDoc ==
    Elem("Transactions", <<>>,
         Elem("Transaction", <<>>,
              Elem("TransType", <<Text("Checkout")>>, <<>>)
              \o Elem("Date", <<Text("2024-01-15")>>, <<>>)
              \o Elem("Time", <<Text("10:30")>>, <<>>)
              \o Elem("LastName", <<Text("Smith")>>, <<>>)
              \o Elem("FirstName", <<Text("Jane")>>, <<>>)
              \o Elem("Title", <<Text("Sample Book")>>, <<>>)
              \o Elem("ISBN", <<Text("1234567890")>>, <<>>)))

SmallDocs ==
    {Elem(r, <<>>, cs) : r \in {"Transactions", "Transaction"}, cs \in SmallSeqs(MaxTrans)}

WellFormedDocs ==
    SmallDocs \cup {Elem("Transactions", <<>>, cs) : cs \in ChildSeqs} \cup {RoundTripDoc}

RemoveAt(d, i) == SubSeq(d, 1, i - 1) \o SubSeq(d, i + 1, Len(d))

\* a token lost, the end cut off, something after or before the root, a
\* declaration that is not at the start, nothing
BrokenDocs ==
    UNION {{RemoveAt(d, i) : i \in 1..Len(d)} : d \in SmallDocs}
    \cup {SubSeq(Elem("Transactions", <<>>, f), 1, Len(f) + 1) : f \in FullKinds}
    \cup {d \o Elem("Header", <<>>, <<>>) : d \in SmallDocs}
    \cup {<<Text("x")>> \o d : d \in SmallDocs}
    \cup {d \o <<Decl("utf-8")>> : d \in SmallDocs}
    \cup {<<>>}

\* the encodings declared: two with a codec, one without
DeclaredEncodings == KnownEncodings \cup {"foo"}

\* documents that start with an XML declaration
DeclaredDocs ==
    {<<Decl(enc)>> \o d : enc \in DeclaredEncodings,
                          d \in SmallDocs \cup {SubSeq(x, 1, Len(x) - 1) : x \in SmallDocs}}

Docs == WellFormedDocs \cup BrokenDocs \cup DeclaredDocs

(****************************** the program ********************************)
NoResult == [buffer |-> NoBuffer, message |-> "", count |-> 0]

NoCall == [input |-> NoFile, read |-> <<>>, tree |-> NoTree, data_rows |-> <<>>,
           wb |-> FALSE, ws |-> <<>>, raised |-> <<>>]

Init ==
    /\ uploaded_file = NoFile
    /\ excel_buffer = NoBuffer
    /\ message = ""
    /\ num_transactions = 0
    /\ last = NoCall
    /\ calls = 0
    /\ first_result = NoResult

\* lines 187-193: the user chooses a file; the uploader hands over a stream
\* positioned at its start
Upload ==
    /\ ~uploaded_file.present
    /\ \E doc \in Docs : uploaded_file' = NewFile(doc)
    /\ UNCHANGED <<excel_buffer, message, num_transactions, last, calls, first_result>>

\* lines 199-202: the button is pressed and parse_xml_to_excel is called on
\* the stream
Convert ==
    /\ uploaded_file.present
    /\ calls < MaxCalls
    /\ LET r == parse_xml_to_excel(uploaded_file)
       IN  /\ uploaded_file' = r.stream
           /\ excel_buffer' = r.result.buffer
           /\ message' = r.result.message
           /\ num_transactions' = r.result.count
           /\ last' = [input |-> uploaded_file, read |-> r.read, tree |-> r.tree,
                       data_rows |-> r.data_rows, wb |-> r.wb, ws |-> r.ws,
                       raised |-> r.raised]
           /\ first_result' = IF calls = 0 THEN r.result ELSE first_result
    /\ calls' = calls + 1

\* line 193: the file is removed; the script reruns with nothing uploaded
Clear ==
    /\ uploaded_file.present
    /\ uploaded_file' = NoFile
    /\ excel_buffer' = NoBuffer
    /\ message' = ""
    /\ num_transactions' = 0
    /\ last' = NoCall
    /\ calls' = 0
    /\ first_result' = NoResult

Next == Upload \/ Convert \/ Clear

Spec == Init /\ [][Next]_vars

(***************************************************************************)
(* Properties.  A call has been made when calls > 0; last records it.       *)
(***************************************************************************)
Called == calls > 0

\* the document the last call read
ReadDoc == last.read

\* the characters of a document are known: it declares no encoding, or one
\* that has a codec
Decodable(doc) == \A i \in 1..Len(doc) : doc[i].k = "decl" => doc[i].v \in KnownEncodings

\* the last call read a well-formed document
ReadWellFormed == Called /\ Decodable(ReadDoc) /\ Parse(ReadDoc).ok

\* the last call read a document that is not well-formed
ReadMalformed == Called /\ Decodable(ReadDoc) /\ ~Parse(ReadDoc).ok

StartsWith(str, prefix) ==
    Len(str) >= Len(prefix) /\ SubSeq(str, 1, Len(prefix)) = prefix

NoDataMessage == "No transaction data found in XML file"

\* the Transaction elements directly under the root, in document order
TopIndexes(root) == {i \in 1..Len(root.children) : root.children[i].tag = "Transaction"}

KthTransaction(root, k) ==
    root.children[CHOOSE i \in TopIndexes(root) :
                      Cardinality({j \in TopIndexes(root) : j <= i}) = k]

\* the number of Transaction start tags anywhere in a document
TransactionTags(doc) == Cardinality({i \in 1..Len(doc) : doc[i] = StartTag("Transaction")})

\* the children of an element that carry a given tag
SameTag(e, tag) == {i \in 1..Len(e.children) : e.children[i].tag = tag}

ColumnOf(label) == CHOOSE c \in 1..Len(Fields) : Fields[c].label = label

\* C1: every call returns one of the four status triples and its parts agree:
\* the buffer is non-null exactly when the message is "Success", then the
\* count is the number of extracted records and at least 1; otherwise the
\* buffer is None, the count is 0 and the message is the no-data message or
\* starts with "Invalid XML file: " or "Error processing file: ".
C1_StatusTriple ==
    Called =>
        /\ (~excel_buffer.isNone) <=> (message = "Success")
        /\ message = "Success" =>
               /\ num_transactions = Len(last.data_rows)
               /\ num_transactions >= 1
        /\ message # "Success" =>
               /\ excel_buffer = NoBuffer
               /\ num_transactions = 0
               /\ \/ message = NoDataMessage
                  \/ StartsWith(message, "Invalid XML file: ")
                  \/ StartsWith(message, "Error processing file: ")

C1_Witness ==
    /\ Called
    /\ message = "Success"
    /\ ~excel_buffer.isNone
    /\ num_transactions = 2

\* C2: for a well-formed document with N >= 1 Transaction elements (those
\* directly under the root, see C8) the batch has N records in document
\* order, the count is N, and the sheet has N+1 rows: row 1 the 19 labels in
\* field declaration order, row k+1 the 19 values of record k in that order.
C2_RowsInDocumentOrder ==
    (ReadWellFormed /\ TopIndexes(last.tree.root) # {}) =>
        LET root == last.tree.root
            N == Cardinality(TopIndexes(root))
        IN  /\ Len(last.data_rows) = N
            /\ num_transactions = N
            /\ \A k \in 1..N : last.data_rows[k] = Record(KthTransaction(root, k))
            /\ ~excel_buffer.isNone
            /\ excel_buffer.rows = last.ws
            /\ Len(last.ws) = N + 1
            /\ \A r \in 1..(N + 1) : Len(last.ws[r]) = 19
            /\ \A c \in 1..19 : last.ws[1][c] = Str(Fields[c].label)
            /\ \A k \in 1..N : \A c \in 1..19 :
                   last.ws[k + 1][c] = last.data_rows[k][Fields[c].label]

C2_Witness ==
    /\ ReadWellFormed
    /\ Cardinality(TopIndexes(last.tree.root)) = 2
    /\ Len(last.ws) = 3
    /\ last.data_rows[1] # last.data_rows[2]

\* the six tag -> label pairs C3 spells out
NamedPairs ==
    {<<"TransType", "Transaction Type">>, <<"PatronGradeLevel", "Grade Level">>,
     <<"PatronHomeroom", "Homeroom">>, <<"BibType", "Material Type">>,
     <<"PubYear", "Publication Year">>, <<"CircType", "Circulation Type">>}

\* the value C3 requires for tag in transaction t, given the value v found:
\* the text of the (first) child with that tag when it has text, '' when no
\* child has that tag; nothing else of t is consulted
FieldAsClaimed(t, tag, v) ==
    LET same == SameTag(t, tag)
    IN  /\ same = {} => v = Str("")
        /\ (same # {} /\ ~t.children[MinOf(same)].text.isNone) =>
               v = t.children[MinOf(same)].text

\* C3: for every Transaction element and each of the 19 fields, the value
\* under the field's label is the text of the child with exactly that tag
\* when it is present with text, and the empty string (not None) when the
\* child is absent, whatever the other children are.
C3_FieldValues ==
    ReadWellFormed =>
        \A k \in 1..Len(last.data_rows) :
            LET t == KthTransaction(last.tree.root, k)
            IN  /\ DOMAIN last.data_rows[k] = Labels
                /\ \A i \in 1..Len(Fields) :
                       FieldAsClaimed(t, Fields[i].tag, last.data_rows[k][Fields[i].label])
                /\ \A p \in NamedPairs : FieldAsClaimed(t, p[1], last.data_rows[k][p[2]])

\* the round trip of RoundTripDoc: seven values, the other twelve ''
C3_Witness ==
    /\ ReadWellFormed
    /\ Len(last.data_rows) = 1
    /\ last.data_rows[1]["Transaction Type"] = Str("Checkout")
    /\ last.data_rows[1]["Date"] = Str("2024-01-15")
    /\ last.data_rows[1]["Time"] = Str("10:30")
    /\ last.data_rows[1]["Last Name"] = Str("Smith")
    /\ last.data_rows[1]["First Name"] = Str("Jane")
    /\ last.data_rows[1]["Title"] = Str("Sample Book")
    /\ last.data_rows[1]["ISBN"] = Str("1234567890")
    /\ Cardinality({l \in Labels : last.data_rows[1][l] = Str("")}) = 12

\* C4 (as claimed): a field whose child element is present with empty text
\* gets the empty string, the same value as when the child is absent.
C4_EmptyTextIsEmptyString ==
    ReadWellFormed =>
        \A k \in 1..Len(last.data_rows) : \A i \in 1..Len(Fields) :
            LET t == KthTransaction(last.tree.root, k)
                same == SameTag(t, Fields[i].tag)
            IN  (same # {} /\ t.children[MinOf(same)].text.isNone) =>
                    last.data_rows[k][Fields[i].label] = Str("")

\* C5: a well-formed document with no Transaction element gives
\* (None, "No transaction data found in XML file", 0); no workbook is
\* created and no buffer is returned.
C5_NoData ==
    (ReadWellFormed /\ TransactionTags(ReadDoc) = 0) =>
        /\ message = NoDataMessage
        /\ excel_buffer = NoBuffer
        /\ num_transactions = 0
        /\ ~last.wb
        /\ last.ws = <<>>

C5_Witness ==
    /\ ReadWellFormed
    /\ TransactionTags(ReadDoc) = 0
    /\ Len(last.tree.root.children) = 2
    /\ message = NoDataMessage

CellLength(v) == IF v.isNone THEN 4 ELSE Len(v.s)

\* the greatest string length in column c of the sheet, header included
MaxLen(rows, c) ==
    CHOOSE m \in {CellLength(rows[r][c]) : r \in 1..Len(rows)} :
        \A r \in 1..Len(rows) : CellLength(rows[r][c]) <= m

\* C7: after a successful conversion every column's width is
\* min(maxLen + 2, 50), maxLen the greatest string length over the header
\* and the data cells of the column: 55 characters give 50, 10 give 12, and
\* no width exceeds 50.
C7_ColumnWidths ==
    (Called /\ message = "Success") =>
        /\ Len(excel_buffer.widths) = 19
        /\ \A c \in 1..19 :
               LET w == excel_buffer.widths[c]
                   m == MaxLen(excel_buffer.rows, c)
               IN  /\ w = (IF m + 2 < 50 THEN m + 2 ELSE 50)
                   /\ w <= 50
                   /\ m = 55 => w = 50
                   /\ m = 10 => w = 12

C7_Witness ==
    /\ Called
    /\ message = "Success"
    /\ MaxLen(excel_buffer.rows, ColumnOf("Title")) = 55
    /\ excel_buffer.widths[ColumnOf("Title")] = 50
    /\ MaxLen(excel_buffer.rows, ColumnOf("Date")) = 10
    /\ excel_buffer.widths[ColumnOf("Date")] = 12

\* C8: only Transaction elements that are direct children of the root give
\* records; one nested deeper, or the root itself, gives none, so a
\* well-formed document whose Transaction elements are all elsewhere yields
\* the no-data result.
C8_DirectChildrenOnly ==
    ReadWellFormed =>
        /\ Len(last.data_rows) = Cardinality(TopIndexes(last.tree.root))
        /\ TopIndexes(last.tree.root) = {} =>
               /\ message = NoDataMessage
               /\ excel_buffer = NoBuffer
               /\ num_transactions = 0

C8_Witness ==
    /\ ReadWellFormed
    /\ last.tree.root.tag = "Transaction"
    /\ TransactionTags(ReadDoc) = 2
    /\ TopIndexes(last.tree.root) = {}
    /\ message = NoDataMessage

\* C9 (as claimed): the result of a call depends only on the bytes of the
\* document and the input is left as it was, so after a successful
\* conversion a further call on the same stream returns what
\* the first call on it returned.
C9_SameInputSameResult ==
    (calls >= 2 /\ first_result.message = "Success") =>
        [buffer |-> excel_buffer, message |-> message, count |-> num_transactions]
            = first_result

\* C10: whenever an exception other than the XML parse error was raised
\* during a call, the call returned
\* (None, "Error processing file: <original message>", 0): no buffer and no
\* partly written sheet.
C10_OtherExceptionsReported ==
    (Called /\ \E i \in 1..Len(last.raised) : last.raised[i] # "ParseError") =>
        /\ StartsWith(message, "Error processing file: ")
        /\ message = "Error processing file: " \o last.tree.msg
        /\ excel_buffer = NoBuffer
        /\ num_transactions = 0
        /\ ~last.wb
        /\ last.ws = <<>>

C10_Witness ==
    /\ Called
    /\ last.raised = <<"LookupError">>
    /\ TransactionTags(ReadDoc) > 0
    /\ message = "Error processing file: unknown encoding: foo"

====
